---- MODULE Spec2Model ----
(***************************************************************************)
(* A model of finder.py, the command-line subdomain finder: the CLI driver *)
(* (main), the passive crt.sh fetch, and the threaded DNS brute-force      *)
(* engine (brute_force_subdomains and its worker_bruteforce tasks).        *)
(*                                                                         *)
(* Text is modelled as a sequence of one-character strings, so that        *)
(* strip, split, concatenation, containment and ordering are computed.     *)
(***************************************************************************)
EXTENDS Integers, Sequences, FiniteSets, TLC

(***************************************************************************)
(* Bounds of the model.                                                    *)
(***************************************************************************)
MaxLines == 2
MaxThreads == 2
MaxNameLen == 4

(***************************************************************************)
(* Text helpers (Python str semantics).                                    *)
(***************************************************************************)
Range(s) == { s[i] : i \in 1..Len(s) }

Whitespace == { " ", "\t", "\n" }

RECURSIVE LStrip(_)
LStrip(s) == IF s # <<>> /\ Head(s) \in Whitespace THEN LStrip(Tail(s)) ELSE s

RECURSIVE RStrip(_)
RStrip(s) ==
  IF s # <<>> /\ s[Len(s)] \in Whitespace THEN RStrip(SubSeq(s, 1, Len(s) - 1)) ELSE s

\* A strip that trims the left end only, as str.lstrip() does.
StripLeftOnly(s) == LStrip(s)

\* str.strip()
Strip(s) == RStrip(LStrip(s))

\* f"{word}.{domain}"
Subdomain(word, dom) == word \o <<".">> \o dom

\* The comprehension of line 73 without its "if line.strip()".
StripLinesKeepBlank(lines) == [i \in 1..Len(lines) |-> Strip(lines[i])]

\* words = [line.strip() for line in f if line.strip()]
RECURSIVE StripLines(_)
StripLines(lines) ==
  IF lines = <<>> THEN <<>>
  ELSE IF Strip(Head(lines)) # <<>>
       THEN <<Strip(Head(lines))>> \o StripLines(Tail(lines))
       ELSE StripLines(Tail(lines))

\* str.split(sep) for a one-character separator
RECURSIVE SplitFrom(_, _, _)
SplitFrom(s, sep, cur) ==
  IF s = <<>> THEN <<cur>>
  ELSE IF Head(s) = sep
       THEN <<cur>> \o SplitFrom(Tail(s), sep, <<>>)
       ELSE SplitFrom(Tail(s), sep, Append(cur, Head(s)))

Split(s, sep) == SplitFrom(s, sep, <<>>)

\* needle in s
Contains(needle, s) ==
  \E i \in 1..(Len(s) - Len(needle) + 1) : SubSeq(s, i, i + Len(needle) - 1) = needle

\* s.startswith(prefix)
StartsWith(s, prefix) ==
  Len(s) >= Len(prefix) /\ SubSeq(s, 1, Len(prefix)) = prefix

\* ord(c), for the characters the model uses
Ord(c) ==
  CASE c = "\t" -> 9
    [] c = "\n" -> 10
    [] c = " "  -> 32
    [] c = "*"  -> 42
    [] c = "."  -> 46
    [] c = "a"  -> 97
    [] c = "b"  -> 98
    [] c = "c"  -> 99
    [] c = "d"  -> 100

\* s < t, as Python compares str values
RECURSIVE StrLess(_, _)
StrLess(s, t) ==
  IF t = <<>> THEN FALSE
  ELSE IF s = <<>> THEN TRUE
  ELSE IF Head(s) = Head(t) THEN StrLess(Tail(s), Tail(t))
  ELSE Ord(Head(s)) < Ord(Head(t))

\* A sort in descending order, as sorted(..., reverse=True) gives.
RECURSIVE SortedDescending(_)
SortedDescending(S) ==
  IF S = {} THEN <<>>
  ELSE LET greatest == CHOOSE x \in S : \A y \in S \ {x} : StrLess(y, x)
       IN  <<greatest>> \o SortedDescending(S \ {greatest})

\* sorted(list(S))
RECURSIVE Sorted(_)
Sorted(S) ==
  IF S = {} THEN <<>>
  ELSE LET least == CHOOSE x \in S : \A y \in S \ {x} : StrLess(x, y)
       IN  <<least>> \o Sorted(S \ {least})

(***************************************************************************)
(* Inputs.                                                                 *)
(***************************************************************************)
Domains == { <<"d">> }

\* The lines a wordlist file may hold (without the line terminator).
Lines == { <<"a">>, <<"b", " ">>, <<" ">> }

RECURSIVE SeqsUpTo(_, _)
SeqsUpTo(S, n) ==
  IF n = 0 THEN { <<>> }
  ELSE LET shorter == SeqsUpTo(S, n - 1)
       IN  shorter \cup { Append(q, x) : q \in { r \in shorter : Len(r) = n - 1 }, x \in S }

WordlistFiles == SeqsUpTo(Lines, MaxLines)

\* What a single gethostbyname_ex call can do.
Outcomes == { "resolved", "gaierror", "timeout", "error" }

\* The subdomains a wordlist makes the engine look up.
Candidates(lines, dom) == { Subdomain(w, dom) : w \in Range(StripLines(lines)) }

\* --threads is parsed with type=int: zero and negative counts are accepted.
ThreadCounts == (-1)..MaxThreads

\* name_value fields of a crt.sh answer: "c.d\n*.d\nd\n a.d " and "bd"
NameValues ==
  { <<"c", ".", "d", "\n", "*", ".", "d", "\n", "d", "\n", " ", "a", ".", "d", " ">>,
    <<"b", "d">> }

\* What the crt.sh request can yield: a JSON array of entries (given by their
\* name_value fields), a requests.exceptions.RequestException, or a body
\* that is not JSON.
CrtshResponses ==
  { [status |-> "ok", data |-> <<>>] }
    \cup { [status |-> "ok", data |-> <<nv>>] : nv \in NameValues }
    \cup { [status |-> "RequestException", data |-> <<>>],
           [status |-> "ValueError", data |-> <<>>] }


Workers == 1..MaxThreads

\* None, and every other falsy return value.
None == <<>>

NoItem == [id |-> 0, word |-> <<>>]

VARIABLES
  \* the command line and the environment
  domain,            \* args.domain
  wordlist_given,    \* bool(args.wordlist)
  wordlist_file,     \* what open(wordlist_path) found: [status, lines]
  threads,           \* args.threads / num_threads
  passive_only,      \* args.passive_only
  active_only,       \* args.active_only
  output_given,      \* bool(args.output)
  dns,               \* the resolver: subdomain -> outcome of gethostbyname_ex
  crtsh,             \* what the crt.sh request yielded: [status, data]
  write_failed,      \* whether opening the --output file raised IOError
  \* main
  main_pc, run_passive, run_active, all_found_subdomains, stdout, outfile,
  exit_status, uncaught, fetches,
  \* brute_force_subdomains
  bf_pc, bf_exc, bf_result, word_queue, unfinished_tasks,
  found_subdomains_set, results_list, submitted,
  \* worker_bruteforce, one per submitted future
  w_pc, w_item, w_res,
  \* history: how often each queue entry was dequeued and looked up, and
  \* whether a KeyboardInterrupt has been delivered
  dequeues, lookups, interrupted

args == <<domain, wordlist_given, threads, passive_only, active_only,
          output_given>>
inputs == <<args, dns, wordlist_file>>
modevars == <<run_passive, run_active>>
passivevars == <<fetches, crtsh>>
outvars == <<stdout, outfile, write_failed>>
mainvars == <<main_pc, uncaught, exit_status, all_found_subdomains, modevars,
              passivevars, outvars>>
bfvars == <<bf_pc, bf_exc, bf_result, submitted>>
sinkvars == <<found_subdomains_set, results_list>>
queuevars == <<word_queue, unfinished_tasks>>
workervars == <<w_pc, w_item, w_res>>
history == <<dequeues, lookups>>
engine == <<bfvars, sinkvars, queuevars, workervars, history>>
vars == <<inputs, mainvars, engine, interrupted>>

(***************************************************************************)
(* print_message(message, verbose=False, is_verbose_msg=False): a call     *)
(* that passes any other keyword raises TypeError before the body runs.    *)
(* Verbose diagnostics go to stderr and change no state of the model.      *)
(***************************************************************************)
print_message_params == { "message", "verbose", "is_verbose_msg" }

print_message_raises(keywords) == ~(keywords \subseteq print_message_params)

(***************************************************************************)
(* resolve_subdomain: the subdomain itself when the lookup succeeds, None  *)
(* on socket.gaierror, socket.timeout and on any other Exception.          *)
(***************************************************************************)
\* A resolver whose timeout handler returns the name instead of None.
resolve_subdomain_timeout_found(subdomain_to_check) ==
  CASE dns[subdomain_to_check] = "resolved" -> subdomain_to_check
    [] dns[subdomain_to_check] = "gaierror" -> None
    [] dns[subdomain_to_check] = "timeout"  -> subdomain_to_check
    [] OTHER                                -> None

resolve_subdomain(subdomain_to_check) ==
  CASE dns[subdomain_to_check] = "resolved" -> subdomain_to_check
    [] dns[subdomain_to_check] = "gaierror" -> None
    [] dns[subdomain_to_check] = "timeout"  -> None
    [] OTHER                                -> None

(***************************************************************************)
(* worker_bruteforce, one step per shared-state access.                    *)
(***************************************************************************)
\* line 46: while not word_queue.empty()
WorkerLoop(w) ==
  /\ w_pc[w] = "L46"
  /\ w_pc' = [w_pc EXCEPT ![w] = IF word_queue = <<>> THEN "done" ELSE "L48"]
  /\ UNCHANGED <<inputs, mainvars, bfvars, sinkvars, queuevars, w_item, w_res,
                 history, interrupted>>

\* get_nowait that hands out the head but removes the tail entry.
get_nowait_removes_last(q) == [item |-> Head(q), rest |-> SubSeq(q, 1, Len(q) - 1)]

\* The queue's get_nowait: the head entry, removed atomically under the
\* queue's mutex.
get_nowait(q) == [item |-> Head(q), rest |-> Tail(q)]

\* A worker that calls the blocking get() instead: it waits for an entry.
WorkerGetBlocking(w) ==
  /\ w_pc[w] = "L48"
  /\ word_queue # <<>>
  /\ w_item' = [w_item EXCEPT ![w] = Head(word_queue)]
  /\ word_queue' = Tail(word_queue)
  /\ dequeues' = [dequeues EXCEPT ![Head(word_queue).id] = @ + 1]
  /\ w_pc' = [w_pc EXCEPT ![w] = "L53"]
  /\ UNCHANGED <<inputs, mainvars, bfvars, sinkvars, unfinished_tasks, w_res,
                 lookups, interrupted>>

\* lines 47-50: get_nowait, or return when another worker emptied the queue
WorkerGet(w) ==
  /\ w_pc[w] = "L48"
  /\ IF word_queue = <<>>
     THEN /\ w_pc' = [w_pc EXCEPT ![w] = "done"]
          /\ UNCHANGED <<word_queue, w_item, dequeues>>
     ELSE /\ w_item' = [w_item EXCEPT ![w] = get_nowait(word_queue).item]
          /\ word_queue' = get_nowait(word_queue).rest
          /\ dequeues' = [dequeues EXCEPT ![Head(word_queue).id] = @ + 1]
          /\ w_pc' = [w_pc EXCEPT ![w] = "L53"]
  /\ UNCHANGED <<inputs, mainvars, bfvars, sinkvars, unfinished_tasks, w_res,
                 lookups, interrupted>>

\* A worker that goes back to the loop test without task_done when the
\* lookup fails (a "continue" after line 53).
WorkerResolveSkipsTaskDone(w) ==
  /\ w_pc[w] = "L53"
  /\ LET subdomain == Subdomain(w_item[w].word, domain)
     IN  /\ w_res' = [w_res EXCEPT ![w] = resolve_subdomain(subdomain)]
         /\ w_pc' = [w_pc EXCEPT ![w] =
                       IF resolve_subdomain(subdomain) # None THEN "L54" ELSE "L46"]
  /\ lookups' = [lookups EXCEPT ![w_item[w].id] = @ + 1]
  /\ UNCHANGED <<inputs, mainvars, bfvars, sinkvars, queuevars, w_item,
                 dequeues, interrupted>>

\* lines 52-53: subdomain = f"{word}.{domain}"; resolve_subdomain(subdomain)
WorkerResolve(w) ==
  /\ w_pc[w] = "L53"
  /\ LET subdomain == Subdomain(w_item[w].word, domain)
     IN  /\ w_res' = [w_res EXCEPT ![w] = resolve_subdomain(subdomain)]
         /\ w_pc' = [w_pc EXCEPT ![w] =
                       IF resolve_subdomain(subdomain) # None THEN "L54" ELSE "L57"]
  /\ lookups' = [lookups EXCEPT ![w_item[w].id] = @ + 1]
  /\ UNCHANGED <<inputs, mainvars, bfvars, sinkvars, queuevars, w_item,
                 dequeues, interrupted>>

\* The membership test inverted: if subdomain in found_subdomains_set.
WorkerCheckInverted(w) ==
  /\ w_pc[w] = "L54"
  /\ w_pc' = [w_pc EXCEPT ![w] =
                IF Subdomain(w_item[w].word, domain) \in found_subdomains_set
                THEN "L55" ELSE "L57"]
  /\ UNCHANGED <<inputs, mainvars, bfvars, sinkvars, queuevars, w_item, w_res,
                 history, interrupted>>

\* line 54: if subdomain not in found_subdomains_set
WorkerCheck(w) ==
  /\ w_pc[w] = "L54"
  /\ w_pc' = [w_pc EXCEPT ![w] =
                IF Subdomain(w_item[w].word, domain) \notin found_subdomains_set
                THEN "L55" ELSE "L57"]
  /\ UNCHANGED <<inputs, mainvars, bfvars, sinkvars, queuevars, w_item, w_res,
                 history, interrupted>>

\* line 55: found_subdomains_set.add(subdomain)
WorkerAdd(w) ==
  /\ w_pc[w] = "L55"
  /\ found_subdomains_set' =
       found_subdomains_set \cup { Subdomain(w_item[w].word, domain) }
  /\ w_pc' = [w_pc EXCEPT ![w] = "L56"]
  /\ UNCHANGED <<inputs, mainvars, bfvars, results_list, queuevars, w_item,
                 w_res, history, interrupted>>

\* line 56: results_list.append(subdomain)
WorkerAppend(w) ==
  /\ w_pc[w] = "L56"
  /\ results_list' = Append(results_list, Subdomain(w_item[w].word, domain))
  /\ w_pc' = [w_pc EXCEPT ![w] = "L57"]
  /\ UNCHANGED <<inputs, mainvars, bfvars, found_subdomains_set, queuevars,
                 w_item, w_res, history, interrupted>>

\* line 57: word_queue.task_done(), then back to the loop test
WorkerTaskDone(w) ==
  /\ w_pc[w] = "L57"
  /\ unfinished_tasks' = unfinished_tasks - 1
  /\ w_item' = [w_item EXCEPT ![w] = NoItem]
  /\ w_res' = [w_res EXCEPT ![w] = None]
  /\ w_pc' = [w_pc EXCEPT ![w] = "L46"]
  /\ UNCHANGED <<inputs, mainvars, bfvars, sinkvars, word_queue, history,
                 interrupted>>

(***************************************************************************)
(* brute_force_subdomains.                                                 *)
(***************************************************************************)
\* Queue.put of each word in order; the ids name the queue entries.
Enqueue(words) == [i \in 1..Len(words) |-> [id |-> i, word |-> words[i]]]

\* What open(wordlist_path) and reading the file can find.
WordlistOutcomes ==
  { [status |-> "ok", lines |-> lines] : lines \in WordlistFiles }
    \cup { [status |-> "FileNotFoundError", lines |-> <<>>],
           [status |-> "PermissionError", lines |-> <<>>] }

\* lines 65-86: read the wordlist and fill the queue.  The file, and the
\* resolver the candidates will meet, are the environment's choice.
ReadWordlist ==
  /\ bf_pc = "L71"
  /\ \E file \in WordlistOutcomes :
       /\ wordlist_file' = file
       /\ dns' \in [Candidates(file.lines, domain) -> Outcomes]
       /\ IF file.status # "ok"
          THEN \* lines 79-84: both handlers call print_message(..., file=sys.stderr)
               /\ IF print_message_raises({"message", "file"})
                  THEN bf_pc' = "raised" /\ bf_exc' = "TypeError"
                  ELSE bf_pc' = "returned" /\ bf_exc' = bf_exc
               /\ UNCHANGED <<queuevars, dequeues, lookups>>
          ELSE LET words == StripLines(file.lines)
               IN  IF words = <<>>
                   THEN \* lines 74-76
                        /\ bf_pc' = "returned"
                        /\ UNCHANGED <<bf_exc, queuevars, dequeues, lookups>>
                   ELSE \* lines 77-78
                        /\ word_queue' = Enqueue(words)
                        /\ unfinished_tasks' = Len(words)
                        /\ dequeues' = [i \in 1..Len(words) |-> 0]
                        /\ lookups' = [i \in 1..Len(words) |-> 0]
                        /\ bf_pc' = "L88"
                        /\ bf_exc' = bf_exc
  /\ bf_result' = <<>>
  /\ UNCHANGED <<args, mainvars, submitted, sinkvars, workervars, interrupted>>

\* ThreadPoolExecutor(max_workers=n) raises ValueError unless n > 0.
executor_accepts(max_workers) == max_workers > 0

\* line 88: with concurrent.futures.ThreadPoolExecutor(max_workers=num_threads)
CreateExecutor ==
  /\ bf_pc = "L88"
  /\ IF executor_accepts(threads)
     THEN bf_pc' = "L90" /\ bf_exc' = bf_exc
     ELSE bf_pc' = "raised" /\ bf_exc' = "ValueError"
  /\ UNCHANGED <<inputs, mainvars, bf_result, submitted, sinkvars, queuevars,
                 workervars, history, interrupted>>

\* lines 90-91: executor.submit(worker_bruteforce, ...), num_threads times
Submit ==
  /\ bf_pc = "L90"
  /\ submitted < threads
  /\ submitted' = submitted + 1
  /\ w_pc' = [w_pc EXCEPT ![submitted + 1] = "L46"]
  /\ bf_pc' = IF submitted + 1 = threads THEN "L94" ELSE "L90"
  /\ UNCHANGED <<inputs, mainvars, bf_exc, bf_result, sinkvars, queuevars,
                 w_item, w_res, history, interrupted>>

\* line 94: word_queue.join() returns once unfinished_tasks is zero
Join ==
  /\ bf_pc = "L94"
  /\ unfinished_tasks = 0
  /\ bf_pc' = "L98"
  /\ UNCHANGED <<inputs, mainvars, bf_exc, bf_result, submitted, sinkvars,
                 queuevars, workervars, history, interrupted>>

AllWorkersDone == \A w \in 1..submitted : w_pc[w] = "done"

\* Leaving the with block without waiting for the workers, as
\* shutdown(wait=False) would.
ExecutorExitNoWait ==
  /\ bf_pc = "L98"
  /\ bf_pc' = IF bf_exc = "none" THEN "L100" ELSE "raised"
  /\ UNCHANGED <<inputs, mainvars, bf_exc, bf_result, submitted, sinkvars,
                 queuevars, workervars, history, interrupted>>

\* end of the with block: executor.shutdown(wait=True) joins every worker
\* thread, then a pending exception goes on propagating
ExecutorExit ==
  /\ bf_pc = "L98"
  /\ AllWorkersDone
  /\ bf_pc' = IF bf_exc = "none" THEN "L100" ELSE "raised"
  /\ UNCHANGED <<inputs, mainvars, bf_exc, bf_result, submitted, sinkvars,
                 queuevars, workervars, history, interrupted>>

\* lines 100-101: return results_list
Return ==
  /\ bf_pc = "L100"
  /\ bf_result' = results_list
  /\ bf_pc' = "returned"
  /\ UNCHANGED <<inputs, mainvars, bf_exc, submitted, sinkvars, queuevars,
                 workervars, history, interrupted>>

Worker(w) ==
  \/ WorkerLoop(w)
  \/ WorkerGet(w)
  \/ WorkerResolve(w)
  \/ WorkerCheck(w)
  \/ WorkerAdd(w)
  \/ WorkerAppend(w)
  \/ WorkerTaskDone(w)

NextEngine ==
  \/ ReadWordlist
  \/ CreateExecutor
  \/ Submit
  \/ Join
  \/ ExecutorExit
  \/ Return
  \/ \E w \in Workers : Worker(w)

(***************************************************************************)
(* A brute_force_subdomains call on its own, as a test drives it.          *)
(***************************************************************************)
EngineFresh ==
  /\ bf_exc = "none"
  /\ bf_result = <<>>
  /\ word_queue = <<>>
  /\ unfinished_tasks = 0
  /\ found_subdomains_set = {}
  /\ results_list = <<>>
  /\ submitted = 0
  /\ w_pc = [w \in Workers |-> "unsubmitted"]
  /\ w_item = [w \in Workers |-> NoItem]
  /\ w_res = [w \in Workers |-> None]
  /\ dequeues = <<>>
  /\ lookups = <<>>
  /\ interrupted = FALSE

NoFile == [status |-> "unopened", lines |-> <<>>]

NoResponse == [status |-> "unrequested", data |-> <<>>]

NoDns == [sub \in {} |-> "resolved"]

MainFresh ==
  /\ run_passive = FALSE
  /\ run_active = FALSE
  /\ all_found_subdomains = {}
  /\ stdout = <<>>
  /\ outfile = <<>>
  /\ exit_status = 0
  /\ uncaught = "none"
  /\ fetches = 0
  /\ crtsh = NoResponse
  /\ write_failed = FALSE

InitEngine ==
  /\ domain \in Domains
  /\ wordlist_given = TRUE
  /\ threads \in ThreadCounts
  /\ passive_only = FALSE
  /\ active_only = TRUE
  /\ output_given = FALSE
  /\ wordlist_file = NoFile
  /\ dns = NoDns
  /\ main_pc = "test"
  /\ MainFresh
  /\ bf_pc = "L71"
  /\ EngineFresh

SpecEngine == InitEngine /\ [][NextEngine]_vars

\* The main thread and every worker thread keep being scheduled, and every
\* resolver call returns.
MainThread == ReadWordlist \/ CreateExecutor \/ Submit \/ Join \/ ExecutorExit \/ Return

SpecEngineFair ==
  SpecEngine /\ WF_vars(MainThread) /\ \A w \in Workers : WF_vars(Worker(w))

(***************************************************************************)
(* fetch_crtsh_subdomains.                                                 *)
(***************************************************************************)
\* The filter of line 125 without its test for a leading "*.".
RetainedWithWildcards(name_value, dom) ==
  { sub \in { Strip(part) : part \in Range(Split(name_value, "\n")) } :
      /\ sub # <<>>
      /\ Contains(dom, sub)
      /\ sub # dom }

\* line 125: the names of one name_value field that are kept
Retained(name_value, dom) ==
  { sub \in { Strip(part) : part \in Range(Split(name_value, "\n")) } :
      /\ sub # <<>>
      /\ Contains(dom, sub)
      /\ sub # dom
      /\ ~StartsWith(sub, <<"*", ".">>) }

\* lines 118-126 over the whole JSON array
RetainedAll(data, dom) == UNION { Retained(data[i], dom) : i \in 1..Len(data) }

(***************************************************************************)
(* main.                                                                   *)
(***************************************************************************)
\* The usage check without the test of line 160.
UsageErrorConflictOnly == passive_only /\ active_only

UsageError ==
  \/ passive_only /\ active_only
  \/ active_only /\ ~wordlist_given

\* lines 154-163: the usage checks; each reports through
\* print_message(..., file=sys.stderr) and then calls sys.exit(1)
ParseArgs ==
  /\ main_pc = "L154"
  /\ IF UsageError
     THEN IF print_message_raises({"message", "file"})
          THEN main_pc' = "raised" /\ uncaught' = "TypeError"
          ELSE main_pc' = "raised" /\ uncaught' = "SystemExit"
     ELSE main_pc' = "L166" /\ uncaught' = uncaught
  /\ UNCHANGED <<inputs, exit_status, all_found_subdomains, modevars,
                 passivevars, outvars, engine, interrupted>>

\* Mode selection in which only --active-only turns the active phase on.
SelectModeByFlagOnly ==
  /\ main_pc = "L166"
  /\ run_passive' = ~active_only
  /\ run_active' = (wordlist_given /\ active_only)
  /\ main_pc' = "L181"
  /\ UNCHANGED <<inputs, uncaught, exit_status, all_found_subdomains,
                 passivevars, outvars, engine, interrupted>>

\* lines 166-179: which phases run
SelectMode ==
  /\ main_pc = "L166"
  /\ run_passive' = ~active_only
  /\ run_active' = (wordlist_given /\ ~passive_only)
  /\ main_pc' = "L181"
  /\ UNCHANGED <<inputs, uncaught, exit_status, all_found_subdomains,
                 passivevars, outvars, engine, interrupted>>

\* lines 181-184, with fetch_crtsh_subdomains (lines 103-137) inlined: every
\* except clause reports through print_message(..., file=sys.stderr)
PassiveFetchFrom(responses) ==
  /\ main_pc = "L181"
  /\ IF ~run_passive
     THEN /\ main_pc' = "L186"
          /\ UNCHANGED <<all_found_subdomains, uncaught, fetches, crtsh>>
     ELSE /\ fetches' = fetches + 1
          /\ crtsh' \in responses
          /\ IF crtsh'.status = "ok"
             THEN /\ all_found_subdomains' =
                       all_found_subdomains \cup RetainedAll(crtsh'.data, domain)
                  /\ main_pc' = "L186"
                  /\ uncaught' = uncaught
             ELSE IF print_message_raises({"message", "file"})
                  THEN /\ main_pc' = "raised"
                       /\ uncaught' = "TypeError"
                       /\ UNCHANGED all_found_subdomains
                  ELSE /\ main_pc' = "L186"
                       /\ UNCHANGED <<all_found_subdomains, uncaught>>
  /\ UNCHANGED <<inputs, exit_status, modevars, outvars, engine, interrupted>>

PassiveFetch == PassiveFetchFrom(CrtshResponses)

\* lines 186-190: call brute_force_subdomains when the active phase runs
ActiveStart ==
  /\ main_pc = "L186"
  /\ IF run_active
     THEN IF ~wordlist_given
          THEN \* lines 187-188
               /\ IF print_message_raises({"message", "file"})
                  THEN main_pc' = "raised" /\ uncaught' = "TypeError"
                  ELSE main_pc' = "L194" /\ uncaught' = uncaught
               /\ bf_pc' = bf_pc
          ELSE main_pc' = "L190" /\ bf_pc' = "L71" /\ uncaught' = uncaught
     ELSE main_pc' = "L194" /\ bf_pc' = bf_pc /\ uncaught' = uncaught
  /\ UNCHANGED <<inputs, exit_status, all_found_subdomains, modevars,
                 passivevars, outvars, bf_exc, bf_result, submitted, sinkvars,
                 queuevars, workervars, history, interrupted>>

\* lines 190-192: the call returned; merge its results
ActiveMerge ==
  /\ main_pc = "L190"
  /\ bf_pc = "returned"
  /\ all_found_subdomains' = all_found_subdomains \cup Range(bf_result)
  /\ main_pc' = "L194"
  /\ UNCHANGED <<inputs, uncaught, exit_status, modevars, passivevars, outvars,
                 engine, interrupted>>

\* line 190: the call raised; nothing in main handles it
ActiveRaise ==
  /\ main_pc = "L190"
  /\ bf_pc = "raised"
  /\ main_pc' = "raised"
  /\ uncaught' = bf_exc
  /\ UNCHANGED <<inputs, exit_status, all_found_subdomains, modevars,
                 passivevars, outvars, engine, interrupted>>

Message(kind) == [kind |-> kind, text |-> <<>>]

ResultLine(sub) == [kind |-> "result", text |-> sub]

\* lines 194-200: the header and the sorted results, on standard output
PrintResults ==
  /\ main_pc = "L194"
  /\ IF all_found_subdomains = {}
     THEN /\ stdout' = Append(stdout, Message("no_subdomains_found"))
          /\ main_pc' = "L211"
     ELSE LET sorted_subdomains == Sorted(all_found_subdomains)
          IN  /\ stdout' = Append(stdout, Message("found_header")) \o
                   [i \in 1..Len(sorted_subdomains) |-> ResultLine(sorted_subdomains[i])]
              /\ main_pc' = "L202"
  /\ UNCHANGED <<inputs, uncaught, exit_status, all_found_subdomains, modevars,
                 passivevars, outfile, write_failed, engine, interrupted>>

\* lines 202-209: write the --output file
WriteOutput ==
  /\ main_pc = "L202"
  /\ IF ~output_given
     THEN /\ main_pc' = "L211"
          /\ UNCHANGED <<stdout, outfile, uncaught, write_failed>>
     ELSE \E failed \in BOOLEAN :
            /\ write_failed' = failed
            /\ IF ~failed
               THEN /\ outfile' = Sorted(all_found_subdomains)
                    /\ stdout' = Append(stdout, Message("results_saved"))
                    /\ main_pc' = "L211"
                    /\ uncaught' = uncaught
               ELSE \* open raises IOError; the handler reports through
                    \* print_message(..., file=sys.stderr)
                    /\ IF print_message_raises({"message", "file"})
                       THEN main_pc' = "raised" /\ uncaught' = "TypeError"
                       ELSE main_pc' = "L211" /\ uncaught' = uncaught
                    /\ UNCHANGED <<stdout, outfile>>
  /\ UNCHANGED <<inputs, exit_status, all_found_subdomains, modevars,
                 passivevars, engine, interrupted>>

\* lines 211-212: main returns and the process ends with status 0
Finish ==
  /\ main_pc = "L211"
  /\ main_pc' = "exited"
  /\ exit_status' = 0
  /\ UNCHANGED <<inputs, uncaught, all_found_subdomains, modevars, passivevars,
                 outvars, engine, interrupted>>

\* Where the main thread is inside the with block of brute_force_subdomains.
InWithBlock == bf_pc \in { "L90", "L94" }

\* A KeyboardInterrupt is raised in the main thread, wherever it is.  Inside
\* the with block it first runs the executor's __exit__ (line 88), which
\* waits for the workers; elsewhere it propagates at once.
Interrupt ==
  /\ ~interrupted
  /\ main_pc \in { "L154", "L166", "L181", "L186", "L190", "L194", "L202", "L211" }
  /\ interrupted' = TRUE
  /\ IF main_pc = "L190" /\ bf_pc \notin { "returned", "raised" }
     THEN /\ bf_exc' = "KeyboardInterrupt"
          /\ bf_pc' = IF InWithBlock THEN "L98" ELSE "raised"
          /\ UNCHANGED <<main_pc, uncaught>>
     ELSE /\ main_pc' = "raised"
          /\ uncaught' = "KeyboardInterrupt"
          /\ UNCHANGED <<bf_pc, bf_exc>>
  /\ UNCHANGED <<inputs, exit_status, all_found_subdomains, modevars,
                 passivevars, outvars, bf_result, submitted, sinkvars, queuevars,
                 workervars, history>>

\* The status the interpreter exits with: the argument of sys.exit, and 1
\* for an exception nothing caught.
ExitStatus(exc) ==
  CASE exc = "SystemExit" -> 1    \* sys.exit(1), lines 158, 163 and 220
    [] OTHER -> 1                 \* a traceback

\* lines 215-220 and the interpreter's exit: the KeyboardInterrupt handler
\* reports through print_message(..., file=sys.stderr) before sys.exit(1); the
\* process ends once the worker threads, which are joined at exit, are done.
Terminate ==
  /\ main_pc = "raised"
  /\ AllWorkersDone
  /\ IF uncaught = "KeyboardInterrupt"
     THEN IF print_message_raises({"message", "file"})
          THEN uncaught' = "TypeError" /\ exit_status' = ExitStatus("TypeError")
          ELSE uncaught' = "SystemExit" /\ exit_status' = ExitStatus("SystemExit")
     ELSE uncaught' = uncaught /\ exit_status' = ExitStatus(uncaught)
  /\ main_pc' = "exited"
  /\ UNCHANGED <<inputs, all_found_subdomains, modevars, passivevars, outvars,
                 engine, interrupted>>

Next ==
  \/ ParseArgs
  \/ SelectMode
  \/ PassiveFetch
  \/ ActiveStart
  \/ ActiveMerge
  \/ ActiveRaise
  \/ PrintResults
  \/ WriteOutput
  \/ Finish
  \/ Interrupt
  \/ Terminate
  \/ NextEngine

Init ==
  /\ domain \in Domains
  /\ passive_only \in BOOLEAN
  /\ active_only \in BOOLEAN
  /\ wordlist_given \in BOOLEAN
  /\ output_given \in BOOLEAN
  /\ threads \in ThreadCounts
  /\ wordlist_file = NoFile
  /\ dns = NoDns
  /\ main_pc = "L154"
  /\ MainFresh
  /\ bf_pc = "idle"
  /\ EngineFresh

Spec == Init /\ [][Next]_vars

(***************************************************************************)
(* A --passive-only run against every short crt.sh answer of one entry.    *)
(***************************************************************************)
NameChars == { "a", ".", "d", "*", " ", "\n" }

FilterDomains == { <<"d">>, <<"a", "d">> }

FilterResponses ==
  { [status |-> "ok", data |-> <<nv>>] : nv \in SeqsUpTo(NameChars, MaxNameLen) }

InitFilter ==
  /\ domain \in FilterDomains
  /\ passive_only = TRUE
  /\ active_only = FALSE
  /\ wordlist_given = FALSE
  /\ output_given = FALSE
  /\ threads = 1
  /\ wordlist_file = NoFile
  /\ dns = NoDns
  /\ main_pc = "L154"
  /\ MainFresh
  /\ bf_pc = "idle"
  /\ EngineFresh

NextFilter ==
  \/ ParseArgs
  \/ SelectMode
  \/ PassiveFetchFrom(FilterResponses)
  \/ ActiveStart
  \/ PrintResults
  \/ WriteOutput
  \/ Finish

SpecFilter == InitFilter /\ [][NextFilter]_vars

(***************************************************************************)
(* Properties of one brute_force_subdomains run.                           *)
(***************************************************************************)
\* The candidate words of the wordlist that was read.
Words == StripLines(wordlist_file.lines)

WordlistRead == wordlist_file.status = "ok"

NoRepeats(list) ==
  \A i, j \in 1..Len(list) : i # j => list[i] # list[j]

\* The subdomains of the wordlist whose lookup resolves.
Resolving == { sub \in Candidates(wordlist_file.lines, domain) : dns[sub] = "resolved" }

\* C1: results_list never holds a subdomain twice, whatever the wordlist
\* (repeated words included), the worker count and the interleaving, and
\* the returned list holds every subdomain that resolved.
C1_NoDuplicateResults ==
  /\ NoRepeats(results_list)
  /\ (bf_pc = "returned" /\ WordlistRead) => Range(bf_result) = Resolving

\* C2: once a non-empty queue is built and the worker count is at least 1,
\* the run returns with every worker terminated; and a worker that has not
\* terminated can always take its next step, whatever the other workers do.
C2_RunReturns ==
  /\ [](\A w \in Workers :
          w_pc[w] \notin { "unsubmitted", "done" } => ENABLED Worker(w))
  /\ ((bf_pc = "L88" /\ threads >= 1)
        ~> (bf_pc = "returned" /\ \A w \in 1..threads : w_pc[w] = "done"))

\* C2 witness: a two-worker run over two candidates has returned.
C2_Witness ==
  /\ bf_pc = "returned"
  /\ threads = 2
  /\ Len(Words) = 2
  /\ \A w \in 1..2 : w_pc[w] = "done"

\* C3: every queue entry is dequeued at most once and looked up at most
\* once, no two workers hold the same entry, and when the run returns every
\* entry has been dequeued and looked up exactly once and the queue is empty.
C3_ExactlyOnce ==
  /\ \A i \in 1..Len(dequeues) : dequeues[i] <= 1 /\ lookups[i] <= dequeues[i]
  /\ \A v, w \in Workers :
       (v # w /\ w_item[v] # NoItem) => w_item[v].id # w_item[w].id
  /\ (bf_pc = "returned" /\ WordlistRead) =>
       /\ word_queue = <<>>
       /\ Len(dequeues) = Len(Words)
       /\ \A i \in 1..Len(dequeues) : dequeues[i] = 1 /\ lookups[i] = 1
       /\ \A w \in Workers : w_item[w] = NoItem

\* C3 witness: two workers each hold one of two entries that carry the same
\* word.
C3_Witness ==
  /\ w_item[1] # NoItem
  /\ w_item[2] # NoItem
  /\ w_item[1].id # w_item[2].id
  /\ w_item[1].word = w_item[2].word

\* C4: when every candidate resolves, the run returns exactly n subdomains,
\* n the number of distinct candidate words, each a candidate + "." + domain.
C4_ExactlyNResults ==
  (bf_pc = "returned" /\ WordlistRead /\ \A sub \in DOMAIN dns : dns[sub] = "resolved")
    => /\ Len(bf_result) = Cardinality(Range(Words))
       /\ Range(bf_result) = { Subdomain(word, domain) : word \in Range(Words) }

\* What a run with a single worker returns: the candidates in wordlist
\* order, each looked up and appended when it resolves and is not yet there.
RECURSIVE SingleWorkerRun(_, _)
SingleWorkerRun(words, found) ==
  IF words = <<>> THEN found
  ELSE LET sub == Subdomain(Head(words), domain)
       IN  SingleWorkerRun(Tail(words),
             IF dns[sub] = "resolved" /\ sub \notin Range(found)
             THEN Append(found, sub) ELSE found)

\* C5: a run with one worker returns the single-worker list, and a run with
\* any number of workers returns, once sorted as a set, the same sequence as
\* the single-worker run.
C5_SameResultSet ==
  (bf_pc = "returned" /\ WordlistRead) =>
    /\ threads = 1 => bf_result = SingleWorkerRun(Words, <<>>)
    /\ Sorted(Range(bf_result)) = Sorted(Range(SingleWorkerRun(Words, <<>>)))

\* C5 witness: a two-worker run returned two results in the order opposite
\* to the single-worker run.
C5_Witness ==
  /\ bf_pc = "returned"
  /\ threads = 2
  /\ Len(bf_result) = 2
  /\ bf_result[1] # bf_result[2]
  /\ bf_result # SingleWorkerRun(Words, <<>>)

\* C6: with a worker count <= 0 and a non-empty queue the run does not
\* fail: it goes on with one worker and returns.
C6_CountCorrected ==
  (threads <= 0 /\ WordlistRead /\ Words # <<>>) =>
    /\ bf_pc # "raised"
    /\ bf_pc \in { "L94", "L98", "L100", "returned" } => submitted = 1

(***************************************************************************)
(* Properties of a whole run of the command-line tool.                     *)
(***************************************************************************)
WordlistFailed == wordlist_file.status \in { "FileNotFoundError", "PermissionError" }

\* The result lines written to standard output, in order.
PrintedResults ==
  LET isResult(i) == stdout[i].kind = "result"
      RECURSIVE From(_)
      From(i) == IF i > Len(stdout) THEN <<>>
                 ELSE IF isResult(i) THEN <<stdout[i].text>> \o From(i + 1)
                 ELSE From(i + 1)
  IN  From(1)

\* C7: when the wordlist cannot be opened or read, the engine starts no
\* worker and returns an empty result instead of raising, and a run that
\* also fetched passively still prints the passive results and exits with
\* status 0.
C7_WordlistFailureRecovered ==
  WordlistFailed =>
    /\ submitted = 0
    /\ bf_pc # "raised"
    /\ bf_result = <<>>
    /\ (main_pc = "exited" /\ ~interrupted) =>
         /\ exit_status = 0
         /\ PrintedResults = Sorted(RetainedAll(crtsh.data, domain))

\* C8: once a KeyboardInterrupt has been delivered, no worker dequeues a
\* further candidate, and the process exits with status 1.
C8_InterruptAborts ==
  /\ [][interrupted => dequeues' = dequeues]_vars
  /\ []((interrupted /\ main_pc = "exited") => exit_status = 1)

PassiveFailed == crtsh.status \in { "RequestException", "ValueError" }

\* C9: a failed crt.sh request or an unparsable answer leaves the run
\* going: nothing is raised out of the fetch, the passive result is empty,
\* and a selected active phase is entered afterwards.
C9_PassiveFailureRecovered ==
  PassiveFailed =>
    /\ uncaught \in { "none", "KeyboardInterrupt" } \/ interrupted
    /\ all_found_subdomains \subseteq Range(bf_result)
    /\ (run_active /\ main_pc = "exited" /\ ~interrupted) => bf_pc = "returned"

\* C10: with --passive-only and --active-only together, or --active-only
\* without --wordlist, the run never gets past the usage checks: no crt.sh
\* request is made, the engine is never entered, no lookup is made, and the
\* process can only exit, with status 1.
C10_UsageErrorExits ==
  ((passive_only /\ active_only) \/ (active_only /\ ~wordlist_given)) =>
    /\ main_pc \in { "L154", "raised", "exited" }
    /\ main_pc = "raised" => ENABLED Terminate
    /\ main_pc = "exited" => exit_status = 1
    /\ fetches = 0
    /\ crtsh = NoResponse
    /\ bf_pc = "idle"
    /\ \A w \in Workers : w_pc[w] = "unsubmitted"
    /\ lookups = <<>>

\* C10 witness: --active-only without --wordlist has exited with status 1,
\* no interrupt involved.
C10_Witness ==
  /\ active_only
  /\ ~passive_only
  /\ ~wordlist_given
  /\ ~interrupted
  /\ main_pc = "exited"
  /\ exit_status = 1

(***************************************************************************)
(* The queue that brute_force_subdomains builds.                           *)
(***************************************************************************)
\* w is l without its leading and trailing whitespace, said without Strip.
IsTrimOf(w, l) ==
  \E a \in 0..Len(l) : \E b \in a..Len(l) :
    /\ w = SubSeq(l, a + 1, b)
    /\ \A k \in 1..a : l[k] \in Whitespace
    /\ \A k \in (b + 1)..Len(l) : l[k] \in Whitespace
    /\ w # <<>> => (w[1] \notin Whitespace /\ w[Len(w)] \notin Whitespace)

IsNonBlank(l) == \E k \in 1..Len(l) : l[k] \notin Whitespace

NonBlankLines == SelectSeq(wordlist_file.lines, IsNonBlank)

QueueBuilt == bf_pc = "L88"

PassiveResults ==
  IF fetches > 0 /\ crtsh.status = "ok" THEN RetainedAll(crtsh.data, domain) ELSE {}

ActiveResults == IF bf_pc = "returned" THEN Range(bf_result) ELSE {}

StrictlyIncreasing(list) ==
  \A i, j \in 1..Len(list) : i < j => StrLess(list[i], list[j])

IsLineOf(s, i, j) ==
  /\ i = 1 \/ s[i - 1] = "\n"
  /\ j = Len(s) \/ s[j + 1] = "\n"
  /\ \A k \in i..j : s[k] # "\n"

\* The pieces of a name_value between newlines, each trimmed.
TrimmedNames(name_value) ==
  { w \in { SubSeq(name_value, p, q) :
              p \in 1..(Len(name_value) + 1), q \in 0..Len(name_value) } :
      \E i \in 1..(Len(name_value) + 1) : \E j \in (i - 1)..Len(name_value) :
        IsLineOf(name_value, i, j) /\ IsTrimOf(w, SubSeq(name_value, i, j)) }

HoldsDomain(name, dom) ==
  \E k \in 0..(Len(name) - Len(dom)) : \A m \in 1..Len(dom) : name[k + m] = dom[m]

IsWildcard(name) == Len(name) >= 2 /\ name[1] = "*" /\ name[2] = "."

ValidFlags == ~(passive_only /\ active_only) /\ ~(active_only /\ ~wordlist_given)

CompletedNormally == main_pc = "exited" /\ exit_status = 0

\* main is past the passive phase (line 184) / past the start of the
\* active phase (line 186)
PastPassive ==
  main_pc \in {"L186", "L190", "L194", "L202", "L211"} \/ CompletedNormally

PastActiveStart ==
  main_pc \in {"L190", "L194", "L202", "L211"} \/ CompletedNormally

PassiveRan == fetches > 0

ActiveRan == bf_pc # "idle"

\* C14: for every valid flag combination, the passive phase is run only
\* without --active-only and the active phase only with --wordlist and
\* without --passive-only; once main is past a phase, the passive phase has
\* run exactly when --active-only is absent and the active phase has been
\* started exactly when --wordlist is given and --passive-only is not.
C14_ModeSelection ==
  ValidFlags =>
    /\ PassiveRan => ~active_only
    /\ ActiveRan => (wordlist_given /\ ~passive_only)
    /\ PastPassive => (PassiveRan <=> ~active_only)
    /\ PastActiveStart => (ActiveRan <=> (wordlist_given /\ ~passive_only))

\* C14 witness: --wordlist with no mode flag; both phases ran and the run
\* completed.
C14_Witness ==
  /\ wordlist_given
  /\ ~passive_only
  /\ ~active_only
  /\ PassiveRan
  /\ bf_pc = "returned"
  /\ CompletedNormally

(***************************************************************************)
(* A wordlist without words.                                               *)
(***************************************************************************)
\* The file was read and every one of its lines (if any) is whitespace.
BlankWordlist ==
  /\ WordlistRead
  /\ \A i \in 1..Len(wordlist_file.lines) :
       \A k \in 1..Len(wordlist_file.lines[i]) :
         wordlist_file.lines[i][k] \in Whitespace

\* C15: once an empty or whitespace-only wordlist has been read the run has
\* already returned, with an empty list and no exception; the queue is
\* empty, no worker was submitted and no lookup was made.
C15_BlankWordlistReturnsEmpty ==
  BlankWordlist =>
    /\ bf_pc = "returned"
    /\ bf_result = <<>>
    /\ bf_exc = "none"
    /\ word_queue = <<>>
    /\ submitted = 0
    /\ \A w \in Workers : w_pc[w] = "unsubmitted"
    /\ lookups = <<>>
    /\ results_list = <<>>

\* C15 witness: a wordlist of two whitespace-only lines.
C15_Witness ==
  /\ BlankWordlist
  /\ Len(wordlist_file.lines) = 2
  /\ bf_pc = "returned"
  /\ bf_result = <<>>

(***************************************************************************)
(* A failure to write the --output file.                                   *)
(***************************************************************************)
\* C16: when the --output file cannot be written, the results are already
\* on standard output, no exception leaves main, and a run that is not
\* interrupted goes on to exit with status 0.
C16_WriteFailureRecovered ==
  (write_failed /\ ~interrupted) =>
    /\ PrintedResults = Sorted(all_found_subdomains)
    /\ uncaught = "none"
    /\ main_pc \in { "L211", "exited" }
    /\ main_pc = "exited" => exit_status = 0

(***************************************************************************)
(* The return of brute_force_subdomains.                                   *)
(***************************************************************************)
\* The main thread has left the with block normally (line 100) or returned
\* from a run that started workers.
AfterWithBlock == bf_pc \in { "L100", "returned" } /\ submitted > 0

\* C17: when brute_force_subdomains has left its with block, every worker
\* it submitted has terminated, the queue is empty and no worker holds a
\* candidate; the list it returns is results_list, and after the return
\* neither results_list nor found_subdomains_set changes.
C17_ReturnsAfterWorkers ==
  /\ [](AfterWithBlock =>
          /\ submitted = threads
          /\ \A w \in 1..submitted : w_pc[w] = "done"
          /\ word_queue = <<>>
          /\ unfinished_tasks = 0
          /\ \A w \in Workers : w_item[w] = NoItem
          /\ bf_pc = "returned" => bf_result = results_list)
  /\ [][bf_pc = "returned" =>
          /\ results_list' = results_list
          /\ found_subdomains_set' = found_subdomains_set
          /\ bf_result' = bf_result]_vars

\* C17 witness: a run with two workers returned one result, both workers
\* terminated.
C17_Witness ==
  /\ bf_pc = "returned"
  /\ submitted = 2
  /\ w_pc[1] = "done" /\ w_pc[2] = "done"
  /\ Len(bf_result) = 1
  /\ bf_result = results_list

(***************************************************************************)
(* Lookups that fail.                                                      *)
(***************************************************************************)
\* The subdomain of the candidate worker w holds.
Held(w) == Subdomain(w_item[w].word, domain)

\* Some candidate of the wordlist does not resolve.
SomeLookupFails == \E sub \in DOMAIN dns : dns[sub] # "resolved"

\* C18: a candidate whose lookup ends in not-found, timeout or another
\* error never gets past the test of line 53 and never enters
\* found_subdomains_set or results_list; its worker goes on to task_done and
\* stops only when the queue is empty; no exception leaves the run; and a
\* run with at least one worker and a failing candidate returns, every
\* candidate looked up once, with exactly the subdomains that resolved.
C18_FailedLookupsRecovered ==
  /\ [](/\ \A w \in Workers :
             /\ w_pc[w] \in { "L54", "L55", "L56" } => dns[Held(w)] = "resolved"
             /\ (w_pc[w] = "L57" /\ dns[Held(w)] # "resolved") =>
                  ENABLED WorkerTaskDone(w)
             /\ w_pc[w] = "done" => word_queue = <<>>
        /\ found_subdomains_set \subseteq Resolving
        /\ Range(results_list) \subseteq Resolving
        /\ (WordlistRead /\ threads >= 1) => bf_exc = "none"
        /\ (bf_pc = "returned" /\ WordlistRead) =>
             /\ Range(bf_result) = Resolving
             /\ \A i \in 1..Len(lookups) : lookups[i] = 1)
  /\ ((bf_pc = "L88" /\ threads >= 1 /\ SomeLookupFails)
        ~> (bf_pc = "returned" /\ Range(bf_result) = Resolving))

\* C18 witness: one worker, wordlist a, b; the lookup of a.d failed, the
\* worker went on, b.d resolved, and the run returned [b.d].
C18_Witness ==
  /\ bf_pc = "returned"
  /\ threads = 1
  /\ Words = << <<"a">>, <<"b">> >>
  /\ dns[Subdomain(<<"a">>, domain)] # "resolved"
  /\ dns[Subdomain(<<"b">>, domain)] = "resolved"
  /\ bf_result = << Subdomain(<<"b">>, domain) >>

(***************************************************************************)
(* The queue's count of unfinished tasks.                                  *)
(***************************************************************************)
\* The workers between a successful get_nowait (line 48) and the end of
\* task_done (line 57).
InFlight == { w \in Workers : w_pc[w] \in { "L53", "L54", "L55", "L56", "L57" } }

\* C19: the unfinished-task count is the number of queued candidates plus
\* the number of workers holding one; it is never negative, and once the
\* queue was filled it is zero only when every candidate has been dequeued
\* and looked up and none is held.  The count changes, after the queue was
\* filled, only by a task_done of a worker that holds a candidate, by one;
\* a get_nowait that finds the queue empty leaves it alone.
C19_UnfinishedTasksCount ==
  /\ [](/\ unfinished_tasks = Len(word_queue) + Cardinality(InFlight)
        /\ unfinished_tasks >= 0
        /\ \A w \in Workers : w \in InFlight <=> w_item[w] # NoItem
        /\ (unfinished_tasks = 0 /\ dequeues # <<>>) =>
             /\ word_queue = <<>>
             /\ InFlight = {}
             /\ \A i \in 1..Len(dequeues) : dequeues[i] = 1 /\ lookups[i] = 1)
  /\ [][/\ (bf_pc # "L71" /\ unfinished_tasks' # unfinished_tasks) =>
             /\ unfinished_tasks' = unfinished_tasks - 1
             /\ \E w \in InFlight : w_pc[w] = "L57" /\ w_item'[w] = NoItem
        /\ \A w \in Workers :
             (w_pc[w] = "L48" /\ w_pc'[w] = "done") =>
               unfinished_tasks' = unfinished_tasks
        /\ \A w \in Workers :
             (w_pc[w] = "L57" /\ w_pc'[w] # "L57") =>
               unfinished_tasks' = unfinished_tasks - 1]_vars

\* C19 witness: of two candidates one is still queued and one is held by a
\* worker about to call task_done; a second worker found the queue
\* momentarily non-empty and is at get_nowait.
C19_Witness ==
  /\ unfinished_tasks = 2
  /\ Len(word_queue) = 1
  /\ w_pc[1] = "L57"
  /\ w_pc[2] = "L48"

====
